---- MODULE Spec2Model ----
(***************************************************************************)
(* Sponsor grading: the record-processing pipeline of sponsor_grader.py    *)
(* over the spreadsheet gateway of sheets_handler.py, and the decision     *)
(* extractor _extract_tier_and_reasoning.                                  *)
(*                                                                         *)
(* Text is modelled as a sequence of tokens.  A token is an indivisible    *)
(* run of characters (a word, a marker word, ":", " ", "\n"); the empty    *)
(* string is <<>>.  No marker of the code ("SPONSOR DECISION:",            *)
(* "REASONING:") can be spelled across tokens other than by the marker     *)
(* word immediately followed by the token ":".                             *)
(***************************************************************************)
EXTENDS Integers, Sequences, FiniteSets, TLC

VARIABLES
    research_output,      \* extractor: the transcript handed to the extractor
    category,             \* extractor: returned category
    reasoning,            \* extractor: returned reasoning
    epc,                  \* extractor: "input" | "returned"
    headers,              \* worksheet row 1: the column names
    rows,                 \* worksheet rows 2..: one sequence of cells per row
    pc,                   \* position of the run
    max_records,          \* --max-records: <<>> for None, <<m>> for the integer m
    unprocessed_records,  \* the list the loop iterates over
    i,                    \* loop index of process_unprocessed_records (0-based)
    research_notes,       \* research_and_grade_company's first result
    decision,             \* research_and_grade_company's second result
    outcome,              \* how process_unprocessed_records ended
    calls,                \* history: the external calls made, in order
    fetched,              \* history: what get_unprocessed_records returned
    rows0,                \* history: the worksheet rows when the run started
    arg_row_index,        \* update_record called on its own: its row_index argument
    arg_updates,          \* update_record called on its own: its updates argument
    after_first           \* history: <<headers, rows>> after the first of two calls

evars == <<research_output, category, reasoning, epc>>

pvars == <<headers, rows, pc, max_records, unprocessed_records, i,
           research_notes, decision, outcome, calls, fetched, rows0>>

uvars == <<arg_row_index, arg_updates, after_first>>

vars == <<research_output, category, reasoning, epc, headers, rows, pc,
          max_records, unprocessed_records, i, research_notes, decision,
          outcome, calls, fetched, rows0, arg_row_index, arg_updates,
          after_first>>

----------------------------------------------------------------------------
(* Bounds *)

MaxLines == 3

----------------------------------------------------------------------------
(* String primitives of Python, on token sequences *)

\* str.upper(), per token
Upper(t) ==
    CASE t = "Sponsor Decision" -> "SPONSOR DECISION"
      [] t = "reasoning" -> "REASONING"
      [] t = "Flagship" -> "FLAGSHIP"
      [] t = "flagship" -> "FLAGSHIP"
      [] t = "Eligible" -> "ELIGIBLE"
      [] t = "Rejected" -> "REJECTED"
      [] t = "text" -> "TEXT"
      [] OTHER -> t

UpperStr(s) == [k \in DOMAIN s |-> Upper(s[k])]

\* the characters str.strip() removes
IsSpace(t) == t \in {" ", "\n"}

RECURSIVE LStrip(_)
LStrip(s) == IF s # <<>> /\ IsSpace(Head(s)) THEN LStrip(Tail(s)) ELSE s

RECURSIVE RStrip(_)
RStrip(s) ==
    IF s # <<>> /\ IsSpace(s[Len(s)]) THEN RStrip(SubSeq(s, 1, Len(s) - 1)) ELSE s

\* str.strip()
Strip(s) == RStrip(LStrip(s))

\* positions of the separator token in s
SepPositions(s, sep) == {k \in DOMAIN s : s[k] = sep}

Min(S) == CHOOSE x \in S : \A y \in S : x <= y
Max(S) == CHOOSE x \in S : \A y \in S : x >= y

\* s.split(sep)[-1]: the text after the last separator (all of s without one)
SplitLast(s, sep) ==
    IF SepPositions(s, sep) = {} THEN s
    ELSE SubSeq(s, Max(SepPositions(s, sep)) + 1, Len(s))

\* s.split(sep, 1)[-1]: the text after the first separator (all of s without one)
SplitFirst(s, sep) ==
    IF SepPositions(s, sep) = {} THEN s
    ELSE SubSeq(s, Min(SepPositions(s, sep)) + 1, Len(s))

\* s.split(sep): the list of pieces between separators
RECURSIVE Split(_, _)
Split(s, sep) ==
    IF SepPositions(s, sep) = {} THEN <<s>>
    ELSE <<SubSeq(s, 1, Min(SepPositions(s, sep)) - 1)>>
         \o Split(SubSeq(s, Min(SepPositions(s, sep)) + 1, Len(s)), sep)

\* pat in s
Contains(s, pat) ==
    \E k \in 0..(Len(s) - Len(pat)) : SubSeq(s, k + 1, k + Len(pat)) = pat

\* word in s, for a word that is one token
ContainsWord(s, w) == \E k \in DOMAIN s : s[k] = w

\* token t begins with the characters of prefix p
TokenHasPrefix(t, p) == t = p \/ (p = "SPONSOR" /\ t = "SPONSOR DECISION")

\* s.startswith(prefixes)
StartsWithAny(s, prefixes) ==
    s # <<>> /\ \E p \in prefixes : TokenHasPrefix(s[1], p)

----------------------------------------------------------------------------
(* The decision extractor: SponsorGrader._extract_tier_and_reasoning *)

DecisionMarker == <<"SPONSOR DECISION", ":">>
ReasoningMarker == <<"REASONING", ":">>
DefaultReasoning == <<"Unable to parse sponsor decision from research output">>
StopPrefixes == {"SPONSOR", "RESEARCH", "SUMMARY"}

\* faulty variant of Classify: the else branch accepts
ClassifyAcceptByDefault(decision_line) ==
    IF ContainsWord(decision_line, "FLAGSHIP") THEN "Flagship"
    ELSE "Eligible"

\* the if/elif/else on decision_line
Classify(decision_line) ==
    IF ContainsWord(decision_line, "FLAGSHIP") THEN "Flagship"
    ELSE IF ContainsWord(decision_line, "ELIGIBLE") THEN "Eligible"
    ELSE "Rejected"

\* line.split(':')[-1].strip().upper()
DecisionLine(line) == UpperStr(Strip(SplitLast(line, ":")))

\* faulty variant of Continuation: an empty line does not end the reasoning block
RECURSIVE ContinuationPastBlank(_, _, _)
ContinuationPastBlank(lines, j, r) ==
    IF j <= Len(lines) /\ ~StartsWithAny(UpperStr(lines[j]), StopPrefixes)
    THEN ContinuationPastBlank(lines, j + 1, r \o <<" ">> \o Strip(lines[j]))
    ELSE r

\* the while loop appending continuation lines, from index j
RECURSIVE Continuation(_, _, _)
Continuation(lines, j, r) ==
    IF j <= Len(lines) /\ Strip(lines[j]) # <<>>
       /\ ~StartsWithAny(UpperStr(lines[j]), StopPrefixes)
    THEN Continuation(lines, j + 1, r \o <<" ">> \o Strip(lines[j]))
    ELSE r

\* the reasoning branch's first assignment
ReasoningHead(line) == Strip(SplitFirst(line, ":"))

\* faulty variant of Scan: no break, the loop goes on looking for decision
\* markers after the reasoning block
RECURSIVE ScanPastReasoning(_, _, _)
ScanPastReasoning(lines, n, cat) ==
    IF n > Len(lines) THEN <<cat, DefaultReasoning>>
    ELSE LET line == lines[n]
             cat2 == IF Contains(UpperStr(line), DecisionMarker)
                     THEN Classify(DecisionLine(line))
                     ELSE cat
         IN  IF Contains(UpperStr(line), ReasoningMarker)
             THEN <<ScanPastReasoning(lines, n + 1, cat2)[1],
                    Continuation(lines, n + 1, ReasoningHead(line))>>
             ELSE ScanPastReasoning(lines, n + 1, cat2)

\* the for loop from line n on, with the category found so far
RECURSIVE Scan(_, _, _)
Scan(lines, n, cat) ==
    IF n > Len(lines) THEN <<cat, DefaultReasoning>>
    ELSE LET line == lines[n]
             cat2 == IF Contains(UpperStr(line), DecisionMarker)
                     THEN Classify(DecisionLine(line))
                     ELSE cat
         IN  IF Contains(UpperStr(line), ReasoningMarker)
             THEN <<cat2, Continuation(lines, n + 1, ReasoningHead(line))>>
             ELSE Scan(lines, n + 1, cat2)

ExtractTierAndReasoning(output) == Scan(Split(output, "\n"), 1, "Rejected")

----------------------------------------------------------------------------
(* Transcripts the research call can return *)

LineSet ==
    { <<>>,
      <<" ">>,
      <<"text">>,
      <<" ", "text", " ">>,
      <<"RESEARCH", " ", "SUMMARY", ":">>,
      <<"SPONSOR DECISION", ":", " ", "Flagship">>,
      <<"Sponsor Decision", ":", "flagship", " ">>,
      <<"SPONSOR DECISION", ":", " ", "Eligible">>,
      <<"SPONSOR DECISION", ":", " ", "Rejected">>,
      <<"SPONSOR DECISION", ":", " ", "Flagship", " ", "text", ":", " ", "text">>,
      <<"REASONING", ":", " ", "text">>,
      <<"text", ":", " ", "reasoning", ":", "text", " ">>,
      <<"SPONSOR DECISION", ":", " ", "Flagship", " ", "REASONING", ":", " ", "text">>,
      <<" ", "SPONSOR DECISION", ":", " ", "Eligible">> }

RECURSIVE JoinLines(_)
JoinLines(ls) ==
    IF Len(ls) = 1 THEN ls[1] ELSE ls[1] \o <<"\n">> \o JoinLines(Tail(ls))

LineLists == UNION { [1..n -> LineSet] : n \in 1..MaxLines }

Transcripts == { JoinLines(ls) : ls \in LineLists }

----------------------------------------------------------------------------
(* Specification of the extractor alone *)

ExtractInit ==
    /\ research_output \in Transcripts
    /\ category = "none"
    /\ reasoning = <<>>
    /\ epc = "input"
    /\ headers = <<>> /\ rows = <<>> /\ pc = "idle" /\ max_records = <<>>
    /\ unprocessed_records = <<>> /\ i = 0 /\ research_notes = <<>>
    /\ decision = <<>> /\ outcome = "none" /\ calls = <<>> /\ fetched = <<>>
    /\ rows0 = <<>>
    /\ arg_row_index = 0
    /\ arg_updates = <<>>
    /\ after_first = <<>>

Extract ==
    /\ epc = "input"
    /\ category' = ExtractTierAndReasoning(research_output)[1]
    /\ reasoning' = ExtractTierAndReasoning(research_output)[2]
    /\ epc' = "returned"
    /\ UNCHANGED research_output
    /\ UNCHANGED pvars
    /\ UNCHANGED uvars

ExtractNext == Extract

SpecExtract == ExtractInit /\ [][ExtractNext]_vars

----------------------------------------------------------------------------
(* The worksheet *)

MaxRows == 3
MaxRecordsArg == 2

E == <<>>

FullHeaders == <<"Timestamp", "Company Name", "Research Notes", "Decision">>

HeaderChoices ==
    { FullHeaders,
      <<"Timestamp", "Company Name", "Research Notes">>,
      <<"Timestamp", "Company Name">> }

\* the cells of a row under FullHeaders
RowKinds ==
    { <<<<"t">>, <<"c">>, E, E>>,                  \* valid, not processed
      <<<<"t">>, <<"c">>, <<"n">>, <<"d">>>>,      \* valid, processed
      <<<<"t">>, <<"c">>, E, <<" ">>>>,            \* valid, Decision holds one space
      <<E, <<" ">>, E, E>> }                       \* no timestamp, no company name

Sheets(h) ==
    UNION { [1..n -> {SubSeq(r, 1, Len(h)) : r \in RowKinds}] : n \in 0..MaxRows }

Range(s) == {s[k] : k \in DOMAIN s}

\* headers.index(field) + 1
ColIndex(h, field) == Min({k \in DOMAIN h : h[k] = field})

----------------------------------------------------------------------------
(* SheetsHandler *)

\* dict.get(key, '')
Get(record, key) ==
    IF key \in DOMAIN record.fields THEN record.fields[key] ELSE E

\* a or b, on strings
OrElse(a, b) == IF a # E THEN a ELSE b

\* worksheet.get_all_records(): one dict per row under the header row, keyed by
\* the header names; _sheet_row is history (the row it was read from), read by
\* no operation
CellAt(row, col) == IF col \in DOMAIN row THEN row[col] ELSE E

WorksheetRecords(h, rs) ==
    [k \in DOMAIN rs |->
        [fields |-> [c \in Range(h) |-> CellAt(rs[k], ColIndex(h, c))],
         _sheet_row |-> k + 1]]

IsValid(record) ==
    /\ Strip(Get(record, "Timestamp")) # E
    /\ Strip(OrElse(Get(record, "Company Name"), Get(record, "Company Name "))) # E

\* SheetsHandler.get_all_records
GetAllRecords(h, rs) == SelectSeq(WorksheetRecords(h, rs), IsValid)

\* faulty variant of IsUnprocessed: the cells are compared without strip()
IsUnprocessedNoStrip(record) ==
    /\ Get(record, "Research Notes") = E
    /\ Get(record, "Decision") = E

IsUnprocessed(record) ==
    /\ Strip(Get(record, "Research Notes")) = E
    /\ Strip(Get(record, "Decision")) = E

\* the loop of get_unprocessed_records from list position k (1-based; the
\* code's enumerate index is k - 1, so i + 2 is k + 1)
RECURSIVE UnprocessedFrom(_, _)
UnprocessedFrom(all_records, k) ==
    IF k > Len(all_records) THEN <<>>
    ELSE (IF IsUnprocessed(all_records[k])
          THEN <<[fields |-> all_records[k].fields,
                  _sheet_row |-> all_records[k]._sheet_row,
                  _row_index |-> k + 1]>>
          ELSE <<>>)
         \o UnprocessedFrom(all_records, k + 1)

\* SheetsHandler.get_unprocessed_records
GetUnprocessedRecords(h, rs) == UnprocessedFrom(GetAllRecords(h, rs), 1)

\* str(value) as the text of one header cell: the characters of its tokens
RECURSIVE CellText(_)
CellText(value) ==
    IF value = <<>> THEN "" ELSE Head(value) \o CellText(Tail(value))

\* the rows 2.. of a worksheet, with empty rows added up to sheet row `row`
PadRows(rs, row) ==
    [k \in 1..(IF row - 1 > Len(rs) THEN row - 1 ELSE Len(rs)) |->
        IF k \in DOMAIN rs THEN rs[k] ELSE <<>>]

\* worksheet.update_cell(row, col, value) on a row below the header row
UpdateCell(rs, row, col, value) ==
    [PadRows(rs, row) EXCEPT ![row - 1] =
        [c \in 1..(IF col > Len(@) THEN col ELSE Len(@)) |->
            IF c = col THEN value ELSE CellAt(@, c)]]

\* worksheet.update_cell(1, col, value): the header row it leaves
UpdateHeaderCell(h, col, value) == [h EXCEPT ![col] = CellText(value)]

\* SheetsHandler.update_record's loop over the fields of updates (a sequence of
\* <<field, value>> in dict order), stopping before the nth update_cell call
\* when that call raises (fail_at = 0: none raises; a row_index below 1 is
\* not a cell, so update_cell raises).  headers_read is the header row read
\* once before the loop; h and rs are the worksheet as the loop changes it.
\* Returns <<header row, rows, ok>>.
RECURSIVE UpdateFields(_, _, _, _, _, _, _)
UpdateFields(headers_read, h, rs, row_index, updates, fail_at, ncalls) ==
    IF updates = <<>> THEN <<h, rs, TRUE>>
    ELSE LET field == Head(updates)[1]
             value == Head(updates)[2]
             col_index == ColIndex(headers_read, field)
         IN  IF field \in Range(headers_read)
             THEN IF fail_at = ncalls + 1 \/ row_index < 1
                  THEN <<h, rs, FALSE>>
                  ELSE IF row_index = 1
                  THEN UpdateFields(headers_read,
                                    UpdateHeaderCell(h, col_index, value), rs,
                                    row_index, Tail(updates), fail_at, ncalls + 1)
                  ELSE UpdateFields(headers_read, h,
                                    UpdateCell(rs, row_index, col_index, value),
                                    row_index, Tail(updates), fail_at, ncalls + 1)
             ELSE UpdateFields(headers_read, h, rs, row_index, Tail(updates),
                               fail_at, ncalls)

\* SheetsHandler.update_record; fail_at = -1: worksheet.row_values(1) raises
UpdateRecord(h, rs, row_index, updates, fail_at) ==
    IF fail_at = -1 THEN <<h, rs, FALSE>>
    ELSE UpdateFields(h, h, rs, row_index, updates, fail_at, 0)

\* SheetsHandler.add_columns_if_missing: the header row it leaves
RECURSIVE AddColumnsIfMissing(_, _)
AddColumnsIfMissing(h, required_columns) ==
    IF required_columns = <<>> THEN h
    ELSE AddColumnsIfMissing(
             IF Head(required_columns) \in Range(h) THEN h
             ELSE Append(h, Head(required_columns)),
             Tail(required_columns))

\* SheetsHandler.setup_required_columns
SetupRequiredColumns(h) == AddColumnsIfMissing(h, <<"Research Notes", "Decision">>)

----------------------------------------------------------------------------
(* SponsorGrader *)

\* what the research call can do: raise, or stream a transcript
ResearchReplies ==
    { [ok |-> FALSE, text |-> <<"timeout">>],
      [ok |-> TRUE,
       text |-> <<"RESEARCH", " ", "SUMMARY", ":", "\n", "text", "\n", "\n",
                  "SPONSOR DECISION", ":", " ", "Eligible", "\n",
                  "REASONING", ":", " ", "text", "\n">>] }

TechnicalErrorDecision ==
    <<"Rejected", " ", "Sponsor", ":", " ",
      "Unable to complete research due to technical error">>

\* f"Research failed: {str(e)}"
ResearchFailedNotes(e) == <<"Research failed", ":", " ">> \o e

\* f"{category} Sponsor: {reasoning}"
FormatDecision(cr) == <<cr[1], " ", "Sponsor", ":", " ">> \o cr[2]

\* faulty variant of ResearchAndGradeCompany: the handler returns no notes
ResearchAndGradeCompanyNoNotes(reply) ==
    IF reply.ok
    THEN <<reply.text, FormatDecision(ExtractTierAndReasoning(reply.text))>>
    ELSE <<E, TechnicalErrorDecision>>

\* SponsorGrader.research_and_grade_company: <<research_notes, decision>>
ResearchAndGradeCompany(reply) ==
    IF reply.ok
    THEN <<reply.text, FormatDecision(ExtractTierAndReasoning(reply.text))>>
    ELSE <<ResearchFailedNotes(reply.text), TechnicalErrorDecision>>

\* unprocessed_records[:max_records]
SlicePrefix(s, m) ==
    IF m >= 0 THEN SubSeq(s, 1, IF m < Len(s) THEN m ELSE Len(s))
    ELSE SubSeq(s, 1, IF Len(s) + m > 0 THEN Len(s) + m ELSE 0)

\* if max_records: unprocessed_records = unprocessed_records[:max_records]
LimitRecords(s, mr) ==
    IF mr # <<>> /\ mr[1] # 0 THEN SlicePrefix(s, mr[1]) ELSE s

\* None, or an integer: argparse's type=int takes negative numbers and zero too
MaxRecordsChoices == {<<>>} \cup {<<m>> : m \in -1..MaxRecordsArg}

Init ==
    /\ research_output = <<>> /\ category = "none" /\ reasoning = <<>>
    /\ epc = "idle"
    /\ headers \in HeaderChoices
    /\ rows \in Sheets(headers)
    /\ rows0 = rows
    /\ pc = "main"
    /\ max_records = <<>>
    /\ unprocessed_records = <<>>
    /\ fetched = <<>>
    /\ i = 0
    /\ research_notes = <<>>
    /\ decision = <<>>
    /\ outcome = "none"
    /\ calls = <<>>
    /\ arg_row_index = 0
    /\ arg_updates = <<>>
    /\ after_first = <<>>

\* main: parse the arguments, validate the configuration, start the run
Main ==
    /\ pc = "main"
    /\ \E mr \in MaxRecordsChoices, config_ok \in BOOLEAN :
         /\ max_records' = mr
         /\ pc' = IF config_ok THEN "connect" ELSE "config_error"
    /\ UNCHANGED <<headers, rows, unprocessed_records, i, research_notes,
                   decision, outcome, calls, fetched, rows0>>
    /\ UNCHANGED evars
    /\ UNCHANGED uvars

\* the exception handler of process_unprocessed_records
CatchAndReturn == "returned"

\* faulty variant of Connect: _connect logs the failure and does not re-raise
ConnectNoReraise ==
    /\ pc = "connect"
    /\ \E ok \in BOOLEAN :
         calls' = Append(calls, [op |-> "connect", ok |-> ok])
    /\ pc' = "fetch"
    /\ UNCHANGED <<headers, rows, max_records, unprocessed_records, i,
                   research_notes, decision, outcome, fetched, rows0>>
    /\ UNCHANGED evars
    /\ UNCHANGED uvars

\* SheetsHandler(sheet_type): _connect, which re-raises on failure
Connect ==
    /\ pc = "connect"
    /\ \E ok \in BOOLEAN :
         /\ calls' = Append(calls, [op |-> "connect", ok |-> ok])
         /\ pc' = IF ok THEN "fetch" ELSE "failed"
         /\ outcome' = IF ok THEN outcome ELSE CatchAndReturn
    /\ UNCHANGED <<headers, rows, max_records, unprocessed_records, i,
                   research_notes, decision, fetched, rows0>>
    /\ UNCHANGED evars
    /\ UNCHANGED uvars

\* handler.get_unprocessed_records(), the empty-list return and the limit
Fetch ==
    /\ pc = "fetch"
    /\ \E ok \in BOOLEAN :
         /\ calls' = Append(calls, [op |-> "get_all_records", ok |-> ok])
         /\ IF ~ok
            THEN /\ pc' = "failed"
                 /\ outcome' = CatchAndReturn
                 /\ UNCHANGED <<unprocessed_records, fetched>>
            ELSE LET found == GetUnprocessedRecords(headers, rows)
                 IN  /\ fetched' = found
                     /\ IF found = <<>>
                        THEN /\ pc' = "done"
                             /\ outcome' = "returned"
                             /\ UNCHANGED unprocessed_records
                        ELSE /\ pc' = "loop"
                             /\ unprocessed_records' = LimitRecords(found, max_records)
                             /\ UNCHANGED outcome
    /\ i' = 0
    /\ UNCHANGED <<headers, rows, max_records, research_notes, decision, rows0>>
    /\ UNCHANGED evars
    /\ UNCHANGED uvars

\* the loop body up to the result of research_and_grade_company(record)
Research ==
    /\ pc = "loop"
    /\ i < Len(unprocessed_records)
    /\ \E reply \in ResearchReplies :
         /\ research_notes' = ResearchAndGradeCompany(reply)[1]
         /\ decision' = ResearchAndGradeCompany(reply)[2]
         /\ calls' = Append(calls, [op |-> "research", ok |-> reply.ok, i |-> i])
    /\ pc' = "update"
    /\ UNCHANGED <<headers, rows, max_records, unprocessed_records, i, outcome,
                   fetched, rows0>>
    /\ UNCHANGED evars
    /\ UNCHANGED uvars

\* the updates dict, in insertion order
Updates(notes, dec) == <<<<"Research Notes", notes>>, <<"Decision", dec>>>>

\* faulty variant of Update: a failed update_record raises out of the loop
UpdateAbortsOnFailure ==
    /\ pc = "update"
    /\ \E fail_at \in {-1, 0, 1, 2} :
         LET row_index == unprocessed_records[i + 1]._row_index
             done == UpdateRecord(headers, rows, row_index,
                                  Updates(research_notes, decision), fail_at)
         IN  /\ headers' = done[1]
             /\ rows' = done[2]
             /\ calls' = Append(calls, [op |-> "update_record", ok |-> done[3],
                                        i |-> i, row_index |-> row_index,
                                        updates |-> Updates(research_notes, decision)])
             /\ pc' = IF done[3] THEN "loop" ELSE "failed"
             /\ outcome' = IF done[3] THEN outcome ELSE "returned"
    /\ i' = i + 1
    /\ UNCHANGED <<max_records, unprocessed_records, research_notes,
                   decision, fetched, rows0>>
    /\ UNCHANGED evars
    /\ UNCHANGED uvars

\* the rest of the loop body: handler.update_record(row_index, updates)
Update ==
    /\ pc = "update"
    /\ \E fail_at \in {-1, 0, 1, 2} :
         LET row_index == unprocessed_records[i + 1]._row_index
             done == UpdateRecord(headers, rows, row_index,
                                  Updates(research_notes, decision), fail_at)
         IN  /\ headers' = done[1]
             /\ rows' = done[2]
             /\ calls' = Append(calls, [op |-> "update_record", ok |-> done[3],
                                        i |-> i, row_index |-> row_index,
                                        updates |-> Updates(research_notes, decision)])
    /\ i' = i + 1
    /\ pc' = "loop"
    /\ UNCHANGED <<max_records, unprocessed_records, research_notes,
                   decision, outcome, fetched, rows0>>
    /\ UNCHANGED evars
    /\ UNCHANGED uvars

\* the loop is exhausted: "Completed processing"
Complete ==
    /\ pc = "loop"
    /\ i >= Len(unprocessed_records)
    /\ pc' = "done"
    /\ outcome' = "returned"
    /\ UNCHANGED <<headers, rows, max_records, unprocessed_records, i,
                   research_notes, decision, calls, fetched, rows0>>
    /\ UNCHANGED evars
    /\ UNCHANGED uvars

Next == Main \/ Connect \/ Fetch \/ Research \/ Update \/ Complete

Spec == Init /\ [][Next]_vars

\* every external call returns, and the interpreter keeps running the loop
FairSpec == Spec /\ WF_vars(Next)

----------------------------------------------------------------------------
(* SheetsHandler.update_record called on its own, twice with the same *)
(* arguments *)

MaxUpdateRows == 1

\* the worksheets the calls are made on
UpdateSheets(h) ==
    UNION { [1..n -> {SubSeq(r, 1, Len(h)) : r \in RowKinds}] :
              n \in 0..MaxUpdateRows }

\* field names a caller passes; "Status" is a column of no worksheet here
UpdateFieldNames == {"Research Notes", "Decision", "Status"}

\* values a caller passes; two of them read as column names
UpdateValues == {<<"v">>, <<"Decision">>, <<"Research Notes">>}

\* the updates dicts of at most two fields, in insertion order
UpdateDicts ==
    {<<>>}
    \cup { <<<<f, v>>>> : f \in UpdateFieldNames, v \in UpdateValues }
    \cup { <<<<f[1], v[1]>>, <<f[2], v[2]>>>> :
             f \in {g \in UpdateFieldNames \X UpdateFieldNames : g[1] # g[2]},
             v \in UpdateValues \X UpdateValues }

UpdateInit ==
    /\ research_output = <<>> /\ category = "none" /\ reasoning = <<>>
    /\ epc = "idle"
    /\ headers \in HeaderChoices
    /\ rows \in UpdateSheets(headers)
    /\ rows0 = rows
    /\ pc = "first_call"
    /\ max_records = <<>> /\ unprocessed_records = <<>> /\ fetched = <<>>
    /\ i = 0 /\ research_notes = <<>> /\ decision = <<>> /\ outcome = "none"
    /\ calls = <<>>
    /\ arg_row_index \in 0..(Len(rows) + 2)
    /\ arg_updates \in UpdateDicts
    /\ after_first = <<>>

\* handler.update_record(row_index, updates), the first time
FirstCall ==
    /\ pc = "first_call"
    /\ \E fail_at \in {-1, 0, 1, 2} :
         LET done == UpdateRecord(headers, rows, arg_row_index, arg_updates,
                                  fail_at)
         IN  /\ headers' = done[1]
             /\ rows' = done[2]
             /\ after_first' = <<done[1], done[2]>>
             /\ calls' = Append(calls, [op |-> "update_record", ok |-> done[3],
                                        i |-> 0, row_index |-> arg_row_index,
                                        updates |-> arg_updates])
    /\ pc' = "second_call"
    /\ UNCHANGED <<max_records, unprocessed_records, i, research_notes,
                   decision, outcome, fetched, rows0, arg_row_index,
                   arg_updates>>
    /\ UNCHANGED evars

\* handler.update_record(row_index, updates) again, with the same arguments
SecondCall ==
    /\ pc = "second_call"
    /\ \E fail_at \in {-1, 0, 1, 2} :
         LET done == UpdateRecord(headers, rows, arg_row_index, arg_updates,
                                  fail_at)
         IN  /\ headers' = done[1]
             /\ rows' = done[2]
             /\ calls' = Append(calls, [op |-> "update_record", ok |-> done[3],
                                        i |-> 1, row_index |-> arg_row_index,
                                        updates |-> arg_updates])
    /\ pc' = "called_twice"
    /\ UNCHANGED <<max_records, unprocessed_records, i, research_notes,
                   decision, outcome, fetched, rows0>>
    /\ UNCHANGED uvars
    /\ UNCHANGED evars

UpdateNext == FirstCall \/ SecondCall

SpecUpdate == UpdateInit /\ [][UpdateNext]_vars

----------------------------------------------------------------------------
(* What a run did, read from the history *)

IsUpdateCall(c) == c.op = "update_record"
IsResearchCall(c) == c.op = "research"

UpdateCalls == SelectSeq(calls, IsUpdateCall)

ConnectFailed == \E p \in DOMAIN calls : calls[p].op = "connect" /\ ~calls[p].ok
FetchedOk == \E p \in DOMAIN calls : calls[p].op = "get_all_records" /\ calls[p].ok

\* the records handed to update_record so far, in call order
ProcessedRecords ==
    [k \in DOMAIN UpdateCalls |-> unprocessed_records[UpdateCalls[k].i + 1]]

\* min(maxRecords, n), and no record for a cap below zero
CapOf(m, n) == IF m < 0 THEN 0 ELSE IF m < n THEN m ELSE n

----------------------------------------------------------------------------
(* C1 *)

\* C1: when maxRecords is given (any integer the CLI accepts) and the Gateway
\* returned n unprocessed records, a completed run has processed exactly the
\* first min(maxRecords, n) of them, in the Gateway's order (stated for a sheet
\* that has all four columns).
C1_FirstMaxRecordsProcessed ==
    (pc = "done" /\ FetchedOk /\ max_records # <<>> /\ headers = FullHeaders) =>
        ProcessedRecords = SubSeq(fetched, 1, CapOf(max_records[1], Len(fetched)))

----------------------------------------------------------------------------
(* C2 *)

\* C2: the row locator of every unprocessed record is the sheet position of
\* the row it was read from, and every row the run did not select keeps its
\* cells (stated for a sheet that has all four columns).
C2_OwnRowOnly ==
    headers = FullHeaders =>
    /\ \A k \in DOMAIN fetched : fetched[k]._row_index = fetched[k]._sheet_row
    /\ \A r \in DOMAIN rows :
         (~\E k \in DOMAIN unprocessed_records :
               unprocessed_records[k]._sheet_row = r + 1)
         => rows[r] = rows0[r]

----------------------------------------------------------------------------
(* C3 *)

\* the update_record call that follows the research call at position p
FollowsWithErrorFields(p) ==
    /\ calls[p + 1].op = "update_record"
    /\ calls[p + 1].i = calls[p].i
    /\ calls[p + 1].row_index = unprocessed_records[calls[p].i + 1]._row_index
    /\ \E e \in {<<"timeout">>} :
         calls[p + 1].updates =
            << <<"Research Notes", <<"Research failed", ":", " ">> \o e>>,
               <<"Decision",
                 <<"Rejected", " ", "Sponsor", ":", " ",
                   "Unable to complete research due to technical error">> >> >>
    \* a successful update leaves these values in the cells of that row
    /\ calls[p + 1].ok =>
         \A f \in {1, 2} :
            calls[p + 1].updates[f][1] \in Range(headers) =>
               rows[calls[p + 1].row_index - 1]
                   [ColIndex(headers, calls[p + 1].updates[f][1])]
               = calls[p + 1].updates[f][2]

\* C3: when the research call fails for a record, the pipeline still calls
\* update_record for that record with Research Notes = the error description
\* and Decision = "Rejected Sponsor: Unable to complete research due to
\* technical error", and then goes on to the next record: the run is not
\* aborted.
C3_ResearchFailureIsWritten ==
    \A p \in DOMAIN calls :
       (IsResearchCall(calls[p]) /\ ~calls[p].ok) =>
          /\ pc # "failed"
          /\ (p = Len(calls)) => (pc = "update" /\ i = calls[p].i)
          /\ (p < Len(calls)) => FollowsWithErrorFields(p)
          /\ (p + 2 <= Len(calls)) =>
                (IsResearchCall(calls[p + 2]) /\ calls[p + 2].i = calls[p].i + 1)
          /\ (p + 1 = Len(calls)) =>
                (pc \in {"loop", "done"} /\ i = calls[p].i + 1)

\* a failed research call was written to its row and the next record followed
C3_Witness ==
    \E p \in DOMAIN calls :
       /\ IsResearchCall(calls[p]) /\ ~calls[p].ok
       /\ p + 2 <= Len(calls)
       /\ calls[p + 1].ok
       /\ headers = FullHeaders
       /\ rows[calls[p + 1].row_index - 1][4] = TechnicalErrorDecision

----------------------------------------------------------------------------
(* C7 *)

\* the cell of data row r (1-based under the header row) in the named column,
\* as the sheet stood when the run started
CellOf(r, col) ==
    IF col \in Range(headers) THEN CellAt(rows0[r], ColIndex(headers, col)) ELSE E

HasTimestampAndCompany(r) ==
    Strip(CellOf(r, "Timestamp")) # E /\ Strip(CellOf(r, "Company Name")) # E

\* the rows read back are these rows, in sheet order, with their own cells
FetchedAre(rowset) ==
    /\ {fetched[k]._sheet_row - 1 : k \in DOMAIN fetched} = rowset
    /\ \A k, l \in DOMAIN fetched :
         k < l => fetched[k]._sheet_row < fetched[l]._sheet_row
    /\ \A k \in DOMAIN fetched : \A c \in Range(headers) :
         fetched[k].fields[c] = CellOf(fetched[k]._sheet_row - 1, c)

----------------------------------------------------------------------------
(* C8 *)

\* C8: the run ensures the Research Notes and Decision columns before it
\* fetches, so the header row holds both when records are fetched and at every
\* update_record call.
C8_ColumnsEnsuredFirst ==
    \A p \in DOMAIN calls :
       IsUpdateCall(calls[p]) =>
          /\ headers = SetupRequiredColumns(headers)
          /\ {"Research Notes", "Decision"} \subseteq Range(headers)

----------------------------------------------------------------------------
(* C9 *)

NoResearchNoWrite ==
    /\ \A p \in DOMAIN calls : calls[p].op \notin {"research", "update_record"}
    /\ rows = rows0

\* C9 as stated: after a connect failure the run makes no research call and no
\* write, and the failure propagates out of process_unprocessed_records.
C9_ConnectFailurePropagates ==
    ConnectFailed => (NoResearchNoWrite /\ outcome = "raised")

\* C9, amended: after a connect failure the run stops with no fetch, no
\* research call and no write; process_unprocessed_records catches the failure,
\* reports it and returns normally to its caller.
C9_ConnectFailureStopsRun ==
    ConnectFailed =>
       /\ NoResearchNoWrite
       /\ calls = <<[op |-> "connect", ok |-> FALSE]>>
       /\ pc = "failed"
       /\ outcome = "returned"

\* a connect failure on a sheet that had records to process
C9_Witness ==
    /\ ConnectFailed
    /\ pc = "failed"
    /\ GetUnprocessedRecords(headers, rows0) # <<>>

----------------------------------------------------------------------------
(* C10 *)

\* after connect and fetch, calls alternate research k, update_record k for
\* k = 0, 1, ... in the Gateway's order, each update on record k's locator
C10_Alternation ==
    \A p \in DOMAIN calls :
       p >= 3 =>
          LET k == (p - 3) \div 2
          IN  /\ calls[p].i = k
              /\ k < Len(unprocessed_records)
              /\ IF (p - 3) % 2 = 0 THEN IsResearchCall(calls[p])
                 ELSE /\ IsUpdateCall(calls[p])
                      /\ calls[p].row_index = unprocessed_records[k + 1]._row_index

\* a completed run made exactly one update_record attempt per selected record,
\* and a run that fetched is never aborted
C10_OneAttemptEach ==
    /\ (pc = "done" /\ FetchedOk) => Len(calls) = 2 + 2 * Len(unprocessed_records)
    /\ pc \in {"failed", "config_error"} => ~FetchedOk

\* C10: when connect and fetch succeed and every external call returns, each
\* selected record gets exactly one update_record attempt, in the Gateway's
\* order, record k's attempt before record k+1's research call, whatever
\* research calls and updates failed, and the run reaches completion.
C10_BatchResilience ==
    /\ [](C10_Alternation /\ C10_OneAttemptEach)
    /\ (FetchedOk ~> (pc = "done"))

\* a completed run of three records in which a research call failed for one
\* record and the update failed for another
C10_Witness ==
    /\ pc = "done"
    /\ Len(unprocessed_records) = 3
    /\ \E p \in DOMAIN calls : IsResearchCall(calls[p]) /\ ~calls[p].ok /\ calls[p].i = 0
    /\ \E p \in DOMAIN calls : IsUpdateCall(calls[p]) /\ ~calls[p].ok /\ calls[p].i = 1
    /\ IsUpdateCall(calls[Len(calls)]) /\ calls[Len(calls)].i = 2

----------------------------------------------------------------------------
(* The transcript as the claims about the extractor see it *)

Lines == Split(research_output, "\n")

HasDecisionMarker(line) == Contains(UpperStr(line), <<"SPONSOR DECISION", ":">>)
HasReasoningMarker(line) == Contains(UpperStr(line), <<"REASONING", ":">>)

\* the line holds "SPONSOR DECISION: Flagship" in some letter case
SaysFlagship(line) ==
    \/ Contains(UpperStr(line), <<"SPONSOR DECISION", ":", " ", "FLAGSHIP">>)
    \/ Contains(UpperStr(line), <<"SPONSOR DECISION", ":", "FLAGSHIP">>)

IsBlank(line) == Strip(line) = <<>>

----------------------------------------------------------------------------
(* C4 *)

\* C4: a transcript that holds "SPONSOR DECISION: Flagship" (any case) on some
\* line, with no decision marker naming another tier on a later line, is given
\* the category Flagship, whatever else is on that line or on other lines.
C4_FlagshipMarkerWins ==
    epc = "returned" =>
       \A k \in DOMAIN Lines :
          (/\ SaysFlagship(Lines[k])
           /\ \A m \in DOMAIN Lines :
                (m > k /\ HasDecisionMarker(Lines[m])) => SaysFlagship(Lines[m]))
          => category = "Flagship"

----------------------------------------------------------------------------
(* C5 *)

\* C5: the category is always one of Flagship, Eligible, Rejected; with no
\* line containing "SPONSOR DECISION:" it is Rejected; and it is other than
\* Rejected only if some line containing the marker also contains FLAGSHIP or
\* ELIGIBLE.
C5_RejectByDefault ==
    epc = "returned" =>
       /\ category \in {"Flagship", "Eligible", "Rejected"}
       /\ (\A k \in DOMAIN Lines : ~HasDecisionMarker(Lines[k]))
             => category = "Rejected"
       /\ category # "Rejected" =>
             \E k \in DOMAIN Lines :
                /\ HasDecisionMarker(Lines[k])
                /\ \/ ContainsWord(UpperStr(Lines[k]), "FLAGSHIP")
                   \/ ContainsWord(UpperStr(Lines[k]), "ELIGIBLE")

\* a transcript of several lines with reasoning but no decision marker was
\* given Rejected
C5_Witness ==
    /\ epc = "returned"
    /\ Len(Lines) >= 2
    /\ \A k \in DOMAIN Lines : ~HasDecisionMarker(Lines[k])
    /\ \E k \in DOMAIN Lines : HasReasoningMarker(Lines[k])
    /\ category = "Rejected"

----------------------------------------------------------------------------
(* C6 *)

\* the text after the first colon of the line, without surrounding whitespace
TextAfterColon(line) == Strip(SplitFirst(line, ":"))

\* C6 as stated: whenever a line containing "REASONING:" is followed
\* immediately by a blank line, the reasoning is the text after the colon on
\* that line and nothing more.
C6_AnyReasoningLine ==
    epc = "returned" =>
       \A k \in DOMAIN Lines :
          (/\ HasReasoningMarker(Lines[k])
           /\ k + 1 \in DOMAIN Lines
           /\ IsBlank(Lines[k + 1]))
          => reasoning = TextAfterColon(Lines[k])

\* C6, amended: when the first line containing "REASONING:" is followed
\* immediately by a blank (empty or whitespace-only) line, the reasoning is the
\* text after the first colon on that line, stripped of surrounding
\* whitespace, and nothing more.
C6_FirstReasoningLine ==
    epc = "returned" =>
       \A k \in DOMAIN Lines :
          (/\ HasReasoningMarker(Lines[k])
           /\ \A m \in DOMAIN Lines : m < k => ~HasReasoningMarker(Lines[m])
           /\ k + 1 \in DOMAIN Lines
           /\ IsBlank(Lines[k + 1]))
          => reasoning = TextAfterColon(Lines[k])

\* the first reasoning line is followed by a blank line and then by a line
\* that would have been appended, had the blank line not ended the block
C6_Witness ==
    /\ epc = "returned"
    /\ \E k \in DOMAIN Lines :
         /\ HasReasoningMarker(Lines[k])
         /\ \A m \in DOMAIN Lines : m < k => ~HasReasoningMarker(Lines[m])
         /\ k + 2 \in DOMAIN Lines
         /\ IsBlank(Lines[k + 1])
         /\ Lines[k + 2] = <<"text">>
         /\ reasoning = <<"text">>

----------------------------------------------------------------------------
(* C11 *)

CalledTwice == pc = "called_twice"

IdempotentBelowHeaderRow ==
    (CalledTwice /\ arg_row_index # 1 /\ calls[1].ok)
        => <<headers, rows>> = after_first

\* two successful calls that wrote two fields into an existing row
WroteTwiceBelowHeaderRow ==
    /\ CalledTwice
    /\ arg_row_index = 2
    /\ rows0 # <<>>
    /\ Len(arg_updates) = 2
    /\ {arg_updates[1][1], arg_updates[2][1]} \subseteq Range(headers)
    /\ calls[1].ok /\ calls[2].ok
    /\ after_first[2] # rows0

----------------------------------------------------------------------------
(* C12 *)

ReasoningLines == {k \in DOMAIN Lines : HasReasoningMarker(Lines[k])}

\* the line the scan stops at: the first one containing "REASONING:", or the
\* last line when there is none
LastScannedLine ==
    IF ReasoningLines = {} THEN Len(Lines) ELSE Min(ReasoningLines)

\* the lines containing "SPONSOR DECISION:" that the scan reads
ScannedDecisionLines ==
    {k \in 1..LastScannedLine : HasDecisionMarker(Lines[k])}

\* the transcript with line m replaced by the line l
WithLine(m, l) == JoinLines([Lines EXCEPT ![m] = l])

\* C12: the returned category is the one named by the last line containing
\* "SPONSOR DECISION:" at or before the first line containing "REASONING:"
\* ("Rejected" when there is no such line), and a decision marker on a later
\* line has no effect on it: whatever stands on that line instead, the
\* category returned is the same
C12_LastDecisionBeforeReasoningWins ==
    epc = "returned" =>
        LET last == LastScannedLine
            scanned == ScannedDecisionLines
        IN  /\ category = IF scanned = {} THEN "Rejected"
                          ELSE Classify(DecisionLine(Lines[Max(scanned)]))
            /\ \A m \in (last + 1)..Len(Lines) :
                 HasDecisionMarker(Lines[m])
                     => \A l \in LineSet :
                          ExtractTierAndReasoning(WithLine(m, l))[1] = category

\* an Eligible decision, then the first REASONING line, then a Flagship
\* decision on a later line: Eligible is returned
C12_Witness ==
    /\ epc = "returned"
    /\ ReasoningLines # {}
    /\ ScannedDecisionLines # {}
    /\ Max(ScannedDecisionLines) < LastScannedLine
    /\ \E m \in DOMAIN Lines : m > LastScannedLine /\ SaysFlagship(Lines[m])
    /\ category = "Eligible"

====
